---- MODULE Spec2Model ----
(***************************************************************************)
(* The sensor-state engine of the dashboard (SensorProvider in             *)
(* contexts/SensorContext.jsx): the run state (isLive / isLiveRef and the  *)
(* start-delay timers of runDiagnostics), the 1-second tick, the cascade   *)
(* computation of simulateFluidMetrics, the history buffer, the WebSocket  *)
(* of the health feed and the feed handler.                                *)
(*                                                                         *)
(* Numbers.  The code computes in floating point and rounds every reading  *)
(* with toFixed.  Here every quantity is an integer count of 1/10000 of    *)
(* its unit (80.0 PSI is 800000), health scores are integers, and a value  *)
(* of Math.random() is given in hundredths (0..99).  With integer scores   *)
(* every target of the code is a whole number of these units; smoothing    *)
(* and rounding are computed exactly on fractions num/den.                 *)
(*                                                                         *)
(* Time.  The interval callback fires once per second, so the number of    *)
(* its firings is the clock.  A start-delay timer of 6000 ms set between   *)
(* firing n and firing n+1 expires between firing n+6 and firing n+7.      *)
(*                                                                         *)
(* JSON.  A parsed object is a record and a parsed array is a sequence.    *)
(* JSON null is the record JsNull.  A value of another type than the one   *)
(* the code expects is held under a field name of its own: a drivers that  *)
(* is an object and not an array is the field drivers_object.  Frame data  *)
(* that JSON.parse rejects is the record Unparseable.                      *)
(*                                                                         *)
(* The api client of lib/api.js (the response interceptor that refreshes   *)
(* the tokens on a 401) is modelled beside the provider; the two share no  *)
(* state.                                                                  *)
(***************************************************************************)
EXTENDS Integers, Sequences, FiniteSets, TLC

VARIABLES
    sensors,              \* useState(INITIAL_SENSORS)
    history,              \* useState([]): the live chart buffer
    segmentHealth,        \* useState({...}): per-segment scores
    systemHealth,         \* useState(100): [num, den], the mean as a fraction
    systemHealthDetails,  \* useState({}): the raw system_health of the feed
    healthRef,            \* useRef(segmentHealth)
    detailsRef,           \* useRef({})
    isLive,               \* useState(true): the run state
    isLiveRef,            \* useRef(isLive): what the interval callback reads
    effectPending,        \* the [isLive] effect is scheduled and has not run
    timers,               \* remaining seconds of each pending start timer
    clock,                \* interval firings so far (seconds)
    msgs,                 \* feed messages handled so far
    requests,             \* pause and resume requests issued so far
    log,                  \* every history entry ever appended, in order
    resolved,             \* promises of runDiagnostics resolved 'started'
    everPaused,           \* a pause request has been issued
    pauseOutstanding,     \* the latest request was a pause
    tickSnap,             \* <<>> or <<snapshot read by the last active tick>>
    tickStream,           \* stream state per node in the last active tick
    crashed,              \* the updater of setSensors has thrown
    connectionStatus,     \* useState('disconnected'), after the mount effect
    reconnectIn,          \* <<>> or <<remaining seconds of setTimeout(connect, 3000)>>
    healthFrom,           \* number of the message healthRef was taken from
    detailsFrom,          \* number of the message detailsRef was taken from
    lastValid,            \* <<>> or <<system_health of the latest well-formed message>>
    mounted,              \* the provider is mounted: its cleanups have not run
    socket,               \* readyState of the latest WebSocket (ws.current)
    calls,                \* the requests sent through the api client of lib/api.js
    accessToken,          \* localStorage access_token: 0 when absent, else its issue
    refreshToken,         \* localStorage refresh_token: 0 when absent, else its issue
    href                  \* window.location.href: "app" or "/login"

vars == << sensors, history, segmentHealth, systemHealth, systemHealthDetails,
           healthRef, detailsRef, isLive, isLiveRef, effectPending, timers,
           clock, msgs, requests, log, resolved, everPaused, pauseOutstanding,
           tickSnap, tickStream, crashed, connectionStatus, reconnectIn,
           healthFrom, detailsFrom, lastValid, mounted, socket,
           calls, accessToken, refreshToken, href >>

(***************************************************************************)
(* Bounds of the model.                                                    *)
(***************************************************************************)
MaxTicks == 7           \* seconds explored by Spec
MaxMsgs == 1            \* feed messages handled in one run of Spec
MaxTimers == 2          \* start timers pending at once in Spec
MaxRequests == 3        \* pause and resume requests in one run of Spec
MaxTicksHist == 46      \* seconds explored by SpecHist
MaxTimersHist == 1      \* start timers pending at once in SpecHist
MaxRequestsHist == 2    \* pause and resume requests in one run of SpecHist
MaxTicksFeed == 2       \* seconds explored by SpecFeed
MaxMsgsFeed == 1        \* feed messages handled in one run of SpecFeed
MaxTicksLink == 5       \* seconds explored by SpecLink
MaxMsgsLink == 2        \* feed messages handled in one run of SpecLink
MaxRequestsLink == 1    \* pause requests in one run of SpecLink
MaxTicksGrade == 1      \* seconds explored by SpecGrade
MaxMsgsGrade == 1       \* feed messages handled in one run of SpecGrade
MaxTicksSettle == 60    \* seconds explored by SpecSettle
MaxMsgsSettle == 1      \* feed messages handled in one run of SpecSettle
MaxTicksDrivers == 1    \* seconds explored by SpecDrivers
MaxMsgsDrivers == 1     \* feed messages handled in one run of SpecDrivers
MaxTicksStart == 8      \* seconds explored by SpecStart
MaxTimersStart == 2     \* start timers pending at once in SpecStart
MaxRequestsStart == 4   \* pause and resume requests in one run of SpecStart
MaxTicksMean == 2       \* seconds explored by SpecMean
MaxMsgsMean == 2        \* feed messages handled in one run of SpecMean
MaxTicksDown == 7       \* seconds explored by SpecDown
MaxMsgsDown == 1        \* feed messages handled in one run of SpecDown
MaxTimersDown == 1      \* start timers pending at once in SpecDown
MaxRequestsDown == 2    \* pause and resume requests in one run of SpecDown
MaxCalls == 3           \* requests sent through the api client in SpecApi

(***************************************************************************)
(* Program constants, in 1/10000 of the unit unless said otherwise.        *)
(***************************************************************************)
HistoryCap == 30             \* updated.slice(-30)
StartDelay == 6              \* 6000 ms, in interval periods of 1000 ms
SourcePressure == 800000     \* let streamPressure = 80.0
SourceFlow == 3550000        \* let streamFlow = 355.0
BaseTemp == 320000           \* 32 in the temp target
FrictionLoss == 8000         \* const frictionLoss = 0.8
LeakPressurePerDamage == 2500  \* damage * 25.0, per 1/100 of damage
LeakFlowPerDamage == 4000      \* damage * 40.0, per 1/100 of damage
BackPressurePerDamage == 500   \* damage * 5, per 1/100 of damage
CriticalBelow == 75          \* health < 75
WarningBelow == 90           \* health < 90
DefaultHealth == 100         \* || 100
ReconnectDelay == 3          \* setTimeout(connect, 3000), in interval periods

Nodes == 1..5
Segments == {"A-B", "B-C", "C-D", "D-E"}

(***************************************************************************)
(* INITIAL_SENSORS.  lat and lng are in 1/1000 of a degree.  The records   *)
(* have no acoustic field: acoustic is <<>> until a tick writes <<value>>. *)
(***************************************************************************)
InitialSensor(id, name, location, lat, lng, pressure) ==
    [ id |-> id, name |-> name, location |-> location, lat |-> lat, lng |-> lng,
      status |-> "normal", pressure |-> pressure, flow |-> 3500000,
      temp |-> 320000, vibration |-> 200, corrosion |-> 100, acoustic |-> <<>> ]

INITIAL_SENSORS ==
    << InitialSensor("SENSOR_A", "Sensor A (Inlet)", "Segment A-B", 51505, -150, 750000),
       InitialSensor("SENSOR_B", "Sensor B (Mid)", "Segment B-C", 51508, -120, 740000),
       InitialSensor("SENSOR_C", "Sensor C (Crit)", "Segment C-D", 51512, -90, 730000),
       InitialSensor("SENSOR_D", "Sensor D (Down)", "Segment D-E", 51509, -60, 720000),
       InitialSensor("SENSOR_E", "Sensor E (Out)", "Segment D-E", 51506, -30, 710000) >>

(***************************************************************************)
(* Arithmetic helpers.                                                     *)
(***************************************************************************)
MathMaxNoClamp(a, b) == b

\* Math.max(a, b)
MathMax(a, b) == IF a >= b THEN a ELSE b

RoundDivDown(n, m) == n \div m

\* n / m rounded to the nearest integer, halves away from zero (m > 0):
\* the rounding of Number.prototype.toFixed
RoundDiv(n, m) ==
    IF n >= 0 THEN (2 * n + m) \div (2 * m)
              ELSE -((2 * (-n) + m) \div (2 * m))

\* parseFloat((num / den).toFixed(k)) where unit = 10^(4-k)
ToFixed(num, den, unit) == RoundDiv(num, den * unit) * unit

\* smooth(prev, target) with target = tnum / tden; the result is a fraction
\* over SmoothDen(tden).  prev is <<>> (no previous value) or <<value>>.
SmoothNum(prev, tnum, tden) ==
    IF prev = <<>> THEN 10 * tnum ELSE 9 * prev[1] * tden + tnum

SmoothDen(tden) == 10 * tden

(***************************************************************************)
(* Driver names are sequences of one-character strings, so that            *)
(* d.name.toLowerCase().includes(drv) is computed on the characters.       *)
(***************************************************************************)
UpperCase == << "A", "B", "C", "D", "E", "F", "G", "H", "I", "J", "K", "L", "M",
                "N", "O", "P", "Q", "R", "S", "T", "U", "V", "W", "X", "Y", "Z" >>
LowerCase == << "a", "b", "c", "d", "e", "f", "g", "h", "i", "j", "k", "l", "m",
                "n", "o", "p", "q", "r", "s", "t", "u", "v", "w", "x", "y", "z" >>

\* the lower-case letter of each upper-case letter
LowerOf == [c \in {UpperCase[i] : i \in 1..26} |->
              LowerCase[CHOOSE i \in 1..26 : UpperCase[i] = c]]

ToLowerChar(c) == IF c \in DOMAIN LowerOf THEN LowerOf[c] ELSE c

ToLowerCaseAsIs(name) == name

\* String.prototype.toLowerCase
ToLowerCase(name) == [i \in 1..Len(name) |-> ToLowerChar(name[i])]

\* String.prototype.includes
Includes(name, drv) ==
    \E i \in 1..(Len(name) - Len(drv) + 1) :
        \A j \in 1..Len(drv) : name[i + j - 1] = drv[j]

KwLeak == << "l", "e", "a", "k" >>
KwFailure == << "f", "a", "i", "l", "u", "r", "e" >>
KwClog == << "c", "l", "o", "g" >>
KwBuildup == << "b", "u", "i", "l", "d", "u", "p" >>
KwCorrosion == << "c", "o", "r", "r", "o", "s", "i", "o", "n" >>
KwVibration == << "v", "i", "b", "r", "a", "t", "i", "o", "n" >>

(***************************************************************************)
(* simulateFluidMetrics: the per-node computation.                         *)
(***************************************************************************)
\* the segment a node reads (lines 131-134)
SegmentOf(id) ==
    IF id = "SENSOR_B" THEN "B-C"
    ELSE IF id = "SENSOR_C" THEN "C-D"
    ELSE IF id = "SENSOR_D" \/ id = "SENSOR_E" THEN "D-E"
    ELSE "A-B"

\* x || 100 for a score: 0 is falsy
OrDefault(x) == IF x = 0 THEN DefaultHealth ELSE x

HealthOfMissingAsZero(currentHealth, segmentId) ==
    IF segmentId \in DOMAIN currentHealth
    THEN OrDefault(currentHealth[segmentId])
    ELSE 0

\* currentHealth[segmentId] || 100
HealthOf(currentHealth, segmentId) ==
    IF segmentId \in DOMAIN currentHealth
    THEN OrDefault(currentHealth[segmentId])
    ELSE DefaultHealth

\* JSON null
JsNull == [ is_null |-> TRUE ]
IsNull(v) == "is_null" \in DOMAIN v

\* d.name is a string
HasName(d) == "name" \in DOMAIN d

\* hasDriver(drv) for the segment (lines 143-147), when it returns
hasDriver(details, segmentId, drv) ==
    IF segmentId \notin DOMAIN details THEN FALSE
    ELSE IF IsNull(details[segmentId]) THEN FALSE
    ELSE IF "drivers" \notin DOMAIN details[segmentId] THEN FALSE
    ELSE \E k \in 1..Len(details[segmentId].drivers) :
            /\ HasName(details[segmentId].drivers[k])
            /\ Includes(ToLowerCase(details[segmentId].drivers[k].name), drv)

\* the segment's record has a drivers that hasDriver cannot walk: an object
\* without some(), or an array holding a driver without a name
BadDrivers(details, segmentId) ==
    /\ segmentId \in DOMAIN details
    /\ ~IsNull(details[segmentId])
    /\ \/ "drivers_object" \in DOMAIN details[segmentId]
       \/ /\ "drivers" \in DOMAIN details[segmentId]
          /\ \E k \in 1..Len(details[segmentId].drivers) :
                ~HasName(details[segmentId].drivers[k])

\* hasDriver(drv) throws a TypeError: segDetails.drivers.some is not a
\* function, or some() reaches a driver whose name is undefined before a
\* driver that matches drv
hasDriverThrows(details, segmentId, drv) ==
    /\ BadDrivers(details, segmentId)
    /\ \/ "drivers_object" \in DOMAIN details[segmentId]
       \/ \E k \in 1..Len(details[segmentId].drivers) :
             /\ ~HasName(details[segmentId].drivers[k])
             /\ \A j \in 1..(k - 1) :
                   /\ HasName(details[segmentId].drivers[j])
                   /\ ~Includes(ToLowerCase(details[segmentId].drivers[j].name), drv)

\* the callback of map throws for the node of this segment: the calls of
\* hasDriver in the order of lines 159-161 and 185, with the short circuit
\* of ||
NodeThrows(details, seg) ==
    /\ BadDrivers(details, seg)
    /\ \/ hasDriverThrows(details, seg, KwLeak)
       \/ ~hasDriver(details, seg, KwLeak) /\ hasDriverThrows(details, seg, KwFailure)
       \/ hasDriverThrows(details, seg, KwClog)
       \/ ~hasDriver(details, seg, KwClog) /\ hasDriverThrows(details, seg, KwBuildup)
       \/ hasDriverThrows(details, seg, KwCorrosion)
       \/ hasDriverThrows(details, seg, KwVibration)

\* prevSensors.map(...) throws
CascadeThrows(prevSensors, details) ==
    \E i \in 1..Len(prevSensors) : NodeThrows(details, SegmentOf(prevSensors[i].id))

isCriticalAt60(health) == health < 60

isCritical(health) == health < CriticalBelow
isWarning(health) == health < WarningBelow

\* damage, in 1/100
Damage(health) == 100 - health

\* isLeak, isBlockage, isCorrosion (lines 159-161) and hasDriver('vibration')
DriverFlags(details, seg) ==
    [ isLeak |-> hasDriver(details, seg, KwLeak) \/ hasDriver(details, seg, KwFailure),
      isBlockage |-> hasDriver(details, seg, KwClog) \/ hasDriver(details, seg, KwBuildup),
      isCorrosion |-> hasDriver(details, seg, KwCorrosion),
      isVibration |-> hasDriver(details, seg, KwVibration) ]

\* leakPressureDrop after lines 166-177
LeakPressureDrop(health, fl) ==
    IF fl.isBlockage THEN 0
    ELSE IF fl.isLeak \/ isCritical(health)
         THEN Damage(health) * LeakPressurePerDamage
         ELSE 0

LeakFlowLossLeakOnly(health, fl) ==
    IF fl.isLeak THEN Damage(health) * LeakFlowPerDamage ELSE 0

\* leakFlowLoss after lines 166-177: the blockage branch does not reset it
LeakFlowLoss(health, fl) ==
    IF fl.isLeak \/ isCritical(health)
    THEN Damage(health) * LeakFlowPerDamage
    ELSE 0

\* streamPressure += damage * 5 in the blockage branch
BackPressure(health, fl) ==
    IF fl.isBlockage THEN Damage(health) * BackPressurePerDamage ELSE 0

\* the stream after a node's segment (lines 174-181), from the stream s before it
StreamStep(s, health, fl) ==
    [ p |-> MathMax(0, s.p + BackPressure(health, fl)
                         - FrictionLoss - LeakPressureDrop(health, fl)),
      f |-> MathMax(0, s.f - LeakFlowLoss(health, fl)) ]

\* the driver flags of each node's segment
NodeFlags(prevSensors, details) ==
    [ i \in 1..Len(prevSensors) |-> DriverFlags(details, SegmentOf(prevSensors[i].id)) ]


StreamsFromSource(i, prevSensors, currentHealth, fls) ==
    [ k \in 1..(i + 1) |->
        IF k = 1 THEN [ p |-> SourcePressure, f |-> SourceFlow ]
        ELSE StreamStep([ p |-> SourcePressure, f |-> SourceFlow ],
                        HealthOf(currentHealth, SegmentOf(prevSensors[k - 1].id)),
                        fls[k - 1]) ]
\* the stream at the source and after each of the nodes 1..i of prevSensors:
\* a sequence of i + 1 stream states
RECURSIVE Streams(_, _, _, _)
Streams(i, prevSensors, currentHealth, fls) ==
    IF i = 0 THEN << [ p |-> SourcePressure, f |-> SourceFlow ] >>
    ELSE LET before == Streams(i - 1, prevSensors, currentHealth, fls)
         IN Append(before,
                   StreamStep(before[i],
                              HealthOf(currentHealth, SegmentOf(prevSensors[i].id)),
                              fls[i]))

TargetVibByHealth(health, fl) ==
    200 + (IF fl.isVibration \/ isCritical(health) THEN health * 80 ELSE 0)
        + (IF fl.isBlockage THEN 3000 ELSE 0)

\* local targets (lines 184-194)
TargetVib(health, fl) ==
    200 + (IF fl.isVibration \/ isCritical(health) THEN Damage(health) * 80 ELSE 0)
        + (IF fl.isBlockage THEN 3000 ELSE 0)

TargetCorrosion(health, fl) ==
    100 + (IF fl.isCorrosion \/ isCritical(health) THEN Damage(health) * 60 ELSE 0)

TargetAcoustic(health, fl) ==
    400000 + (IF fl.isLeak THEN Damage(health) * 5000 ELSE 0)
           + (IF fl.isBlockage THEN Damage(health) * 2000 ELSE 0)

\* status (lines 197-199)
StatusOf(health) ==
    IF isCritical(health) THEN "critical"
    ELSE IF isWarning(health) THEN "warning"
    ELSE "normal"

(***************************************************************************)
(* Noise.  r is a record of the node's five Math.random() values in       *)
(* hundredths: p, f, v, a for noiseP, noiseF, noiseV, noiseA and t for    *)
(* the draw in the temp target.  NoiseV100 is in 1/1000000.               *)
(***************************************************************************)
NoiseP(r, health) == (r.p - 50) * (80 + 3 * Damage(health))
NoiseF(r, health) == (r.f - 50) * (200 + 8 * Damage(health))
NoiseA(r, health) == (r.a - 50) * (50 + 2 * Damage(health))
NoiseV100(r, health) == r.v * (50 + 5 * Damage(health))
NoiseT(r) == (r.t - 50) * 100

\* the record returned for a node (lines 216-225); s is the stream after
\* the node's segment
NewSensor(sensor, s, health, fl, r) ==
    [ sensor EXCEPT
        !.pressure = ToFixed(MathMax(0, SmoothNum(<<sensor.pressure>>, s.p + NoiseP(r, health), 1)),
                             SmoothDen(1), 100),
        !.flow = ToFixed(MathMax(0, SmoothNum(<<sensor.flow>>, s.f + NoiseF(r, health), 1)),
                         SmoothDen(1), 1000),
        !.temp = ToFixed(SmoothNum(<<sensor.temp>>, BaseTemp + 500 * Damage(health) + NoiseT(r), 1),
                         SmoothDen(1), 1000),
        !.vibration = ToFixed(SmoothNum(<<sensor.vibration>>,
                                        100 * TargetVib(health, fl) + NoiseV100(r, health), 100),
                              SmoothDen(100), 10),
        !.acoustic = << ToFixed(SmoothNum(sensor.acoustic,
                                          TargetAcoustic(health, fl) + NoiseA(r, health), 1),
                                SmoothDen(1), 1000) >>,
        !.corrosion = ToFixed(TargetCorrosion(health, fl), 1, 1),
        !.status = StatusOf(health) ]

\* what the callback of map computes for one node before noise and
\* smoothing: the stream entering and leaving the node's segment, the health
\* and driver flags it used and its local targets
NodeTrace(before, after, health, fl) ==
    [ pIn |-> before.p, fIn |-> before.f, pOut |-> after.p, fOut |-> after.f,
      health |-> health, flags |-> fl,
      vib |-> TargetVib(health, fl),
      corrosion |-> TargetCorrosion(health, fl),
      acoustic |-> TargetAcoustic(health, fl) ]

\* NodeTrace of every node in one tick
StreamTrace(prevSensors, currentHealth, details) ==
    LET fls == NodeFlags(prevSensors, details)
        st == Streams(Len(prevSensors), prevSensors, currentHealth, fls)
    IN [ i \in 1..Len(prevSensors) |->
           NodeTrace(st[i], st[i + 1],
                     HealthOf(currentHealth, SegmentOf(prevSensors[i].id)), fls[i]) ]

PublishFirstThree(prevSensors, trace, rnd) ==
    [ i \in 1..Len(prevSensors) |->
        IF i > 3 THEN prevSensors[i]
        ELSE NewSensor(prevSensors[i], [ p |-> trace[i].pOut, f |-> trace[i].fOut ],
                       trace[i].health, trace[i].flags, rnd[i]) ]

PublishReversed(prevSensors, trace, rnd) ==
    [ i \in 1..Len(prevSensors) |->
        NewSensor(prevSensors[Len(prevSensors) + 1 - i],
                  [ p |-> trace[i].pOut, f |-> trace[i].fOut ],
                  trace[i].health, trace[i].flags, rnd[i]) ]
\* the array returned by map, from the trace of the tick
Publish(prevSensors, trace, rnd) ==
    [ i \in 1..Len(prevSensors) |->
        NewSensor(prevSensors[i], [ p |-> trace[i].pOut, f |-> trace[i].fOut ],
                  trace[i].health, trace[i].flags, rnd[i]) ]

\* prevSensors.map(...) (lines 129-226); rnd[i] are node i's random draws
NewSensors(prevSensors, currentHealth, details, rnd) ==
    Publish(prevSensors, StreamTrace(prevSensors, currentHealth, details), rnd)

(***************************************************************************)
(* updateHistory (lines 235-250).  The timestamp is the clock's second.    *)
(***************************************************************************)
HistoryEntryOfNodeB(currentSensors, now) ==
    [ timestamp |-> now,
      pressure |-> currentSensors[2].pressure,
      flow |-> currentSensors[2].flow,
      temp |-> currentSensors[2].temp ]

HistoryEntry(currentSensors, now) ==
    [ timestamp |-> now,
      pressure |-> currentSensors[1].pressure,
      flow |-> currentSensors[1].flow,
      temp |-> currentSensors[1].temp ]

\* arr.slice(-n)
SliceLast(arr, n) ==
    IF Len(arr) <= n THEN arr ELSE SubSeq(arr, Len(arr) - n + 1, Len(arr))

updateHistoryNoEvict(prev, currentSensors, now) ==
    Append(prev, HistoryEntry(currentSensors, now))

updateHistory(prev, currentSensors, now) ==
    SliceLast(Append(prev, HistoryEntry(currentSensors, now)), HistoryCap)

(***************************************************************************)
(* The health feed.  A message is the parsed JSON of event.data: a record  *)
(* that may have a system_health field, a function from segment keys to    *)
(* records with health_score and drivers.                                  *)
(***************************************************************************)
NameLeak == << "L", "e", "a", "k", " ", "D", "e", "t", "e", "c", "t", "e", "d" >>
NameClog == << "c", "l", "o", "g" >>
NameFailure == << "P", "u", "m", "p", " ", "F", "A", "I", "L", "U", "R", "E" >>
NameBuildup == << "S", "c", "a", "l", "e", " ", "B", "u", "i", "l", "d", "u", "p" >>
NameCorrosion == << "C", "o", "r", "r", "o", "s", "i", "o", "n", " ", "R", "a", "t", "e" >>
NameVibration == << "V", "i", "b", "r", "a", "t", "i", "o", "n" >>
NameOther == << "H", "2", "S" >>

Driver(name) == [ name |-> name, severity |-> "high" ]
SegRecord(score, names) ==
    [ health_score |-> score, drivers |-> [k \in 1..Len(names) |-> Driver(names[k])] ]

Healthy == SegRecord(100, << >>)

\* every segment with the same record
Uniform(rec) == [ system_health |-> [seg \in Segments |-> rec] ]

\* the healthy pipeline with one segment replaced
OneSegment(seg, rec) ==
    [ system_health |-> [s \in Segments |-> IF s = seg THEN rec ELSE Healthy] ]

MsgHealthy == Uniform(Healthy)
MsgLeakBC == OneSegment("B-C", SegRecord(60, << NameLeak >>))
MsgClogCD == OneSegment("C-D", SegRecord(40, << NameClog >>))
MsgZeroAB == OneSegment("A-B", SegRecord(0, << NameOther >>))
MsgFarBelow == Uniform(SegRecord(-1000, << NameFailure, NameVibration >>))
MsgFarAbove == Uniform(SegRecord(250, << NameLeak, NameBuildup, NameCorrosion >>))
MsgWorn == Uniform(SegRecord(1, << NameLeak >>))
MsgNoHealth == [ type |-> "heartbeat" ]

\* a message that names one segment only
MsgOnlyBC == [ system_health |-> [s \in {"B-C"} |-> SegRecord(60, << NameLeak >>)] ]

\* "system_health": null, and the frame "null"
MsgNullHealth == [ system_health |-> JsNull ]
MsgNull == JsNull

\* a frame that is not JSON
Unparseable == [ unparseable |-> TRUE ]

\* a segment record that is null
MsgNullCD ==
    [ system_health |-> [s \in Segments |->
        IF s = "C-D" THEN JsNull ELSE SegRecord(80, << NameCorrosion >>)] ]

\* "drivers": {"count": 0}
MsgDriversObject ==
    OneSegment("A-B", [ health_score |-> 95, drivers_object |-> [ count |-> 0 ] ])

\* a driver without a name after a named one
MsgDriverNoName ==
    OneSegment("D-E", [ health_score |-> 95,
                        drivers |-> << Driver(NameLeak), [ severity |-> "high" ] >> ])

Messages == { MsgLeakBC, MsgClogCD, MsgZeroAB }


\* the messages of SpecFeed: the scenarios, and every segment at one score
\* with one list of drivers
FeedScores == { -1000, 0, 1, 60, 100, 250 }
FeedDrivers == { << >>, << NameLeak >>, << NameClog >>,
                 << NameFailure, NameBuildup, NameCorrosion, NameVibration >> }
MessagesFeed ==
    Messages \cup { MsgHealthy, MsgFarBelow, MsgFarAbove, MsgWorn }
             \cup { Uniform(SegRecord(h, d)) : h \in FeedScores, d \in FeedDrivers }

\* the messages of SpecLink: well-formed ones, one that omits segments, and
\* frames the handler skips or handles in part
MessagesLink ==
    { MsgLeakBC, MsgClogCD, MsgWorn, MsgOnlyBC, MsgNoHealth, MsgNullHealth, MsgNull, Unparseable,
      MsgNullCD, MsgDriversObject, MsgDriverNoName }

\* the messages of SpecGrade: one list of drivers on every segment, and a
\* different score on each segment
GradeDrivers == { << >>, << NameLeak >>, << NameClog >>, << NameCorrosion >>,
                  << NameVibration >>,
                  << NameFailure, NameBuildup, NameCorrosion, NameVibration >> }
Graded(ab, bc, cd, de, names) ==
    [ system_health |->
        [ seg \in Segments |->
            SegRecord(IF seg = "A-B" THEN ab ELSE IF seg = "B-C" THEN bc
                      ELSE IF seg = "C-D" THEN cd ELSE de, names) ] ]
MessagesGrade ==
    { Graded(ab, bc, cd, de, names) :
        ab \in {100, 75}, bc \in {90, 74}, cd \in {50, 26}, de \in {25, 1},
        names \in GradeDrivers }

\* the messages of SpecSettle: scenarios the readings are left to settle on
MessagesSettle == { MsgLeakBC, MsgWorn }

\* the messages of SpecDrivers: A-B carries any subset of six driver names
\* after a name of no category, B-C and D-E the names A-B does not carry,
\* C-D the name of no category alone
AllNames == << NameLeak, NameFailure, NameClog, NameBuildup, NameCorrosion, NameVibration >>
NamesAt(S) == << NameOther >> \o SelectSeq(AllNames, LAMBDA n : \E k \in S : AllNames[k] = n)
DriversMsg(S) ==
    [ system_health |->
        [ seg \in Segments |->
            IF seg = "A-B" THEN SegRecord(60, NamesAt(S))
            ELSE IF seg = "B-C" THEN SegRecord(80, NamesAt((1..6) \ S))
            ELSE IF seg = "C-D" THEN SegRecord(95, NamesAt({}))
            ELSE SegRecord(70, NamesAt((1..6) \ S)) ] ]
MessagesDrivers == { DriversMsg(S) : S \in SUBSET (1..6) }

\* "system_health": {}
MsgEmpty == [ system_health |-> [s \in {} |-> Healthy] ]

\* the messages of SpecMean: in-range scores, a score of 0, one segment only
\* and no segment at all
MessagesMean == { MsgHealthy, MsgLeakBC, MsgZeroAB, MsgWorn, MsgOnlyBC, MsgEmpty }

\* s.health_score || 100
ScoreOf(rec) ==
    IF "health_score" \in DOMAIN rec THEN OrDefault(rec.health_score) ELSE DefaultHealth

RECURSIVE SumScores(_, _)
SumScores(sh, segs) ==
    IF segs = {} THEN 0
    ELSE LET seg == CHOOSE x \in segs : TRUE
         IN ScoreOf(sh[seg]) + SumScores(sh, segs \ {seg})

\* scores.reduce((a, b) => a + b, 0) / scores.length, as a fraction
AvgScore(sh) == [ num |-> SumScores(sh, DOMAIN sh), den |-> Cardinality(DOMAIN sh) ]

\* the segHealth object built by lines 91-94
SegHealth(sh) == [seg \in DOMAIN sh |-> ScoreOf(sh[seg])]

(***************************************************************************)
(* Random draws.  One record of five draws per node.                       *)
(***************************************************************************)
Draw(x) == [ p |-> x, f |-> x, t |-> x, v |-> x, a |-> x ]
RandLow == [i \in Nodes |-> Draw(0)]
RandMid == [i \in Nodes |-> Draw(50)]
\* the draws that make noiseP, noiseF, noiseA, noiseV and the temp draw zero
RandZero == [i \in Nodes |-> [ p |-> 50, f |-> 50, t |-> 50, v |-> 0, a |-> 50 ]]
RandHigh == [i \in Nodes |-> Draw(99)]
RandMixed == [i \in Nodes |->
                [ p |-> IF i % 2 = 1 THEN 0 ELSE 99, f |-> IF i % 2 = 1 THEN 99 ELSE 0,
                  t |-> 50, v |-> IF i < 3 THEN 99 ELSE 0, a |-> IF i < 3 THEN 0 ELSE 99 ] ]

RandVecs == { RandMixed }
RandVecsHist == { RandZero }
RandVecsFeed == { RandLow, RandHigh, RandMixed }
RandVecsLink == { RandMid }
RandVecsGrade == { RandMid }

(***************************************************************************)
(* The state after construction and the mount effects (lines 24-39, 101,   *)
(* and connect() of line 72, which sets connectionStatus to 'connecting'). *)
(***************************************************************************)
InitIsLiveFalse == FALSE

\* useState(true)
InitIsLive == TRUE

Init ==
    /\ sensors = INITIAL_SENSORS
    /\ history = << >>
    /\ segmentHealth = [seg \in Segments |-> 100]
    /\ systemHealth = [ num |-> 100, den |-> 1 ]
    /\ systemHealthDetails = << >>
    /\ healthRef = [seg \in Segments |-> 100]
    /\ detailsRef = << >>
    /\ isLive = InitIsLive
    /\ isLiveRef = InitIsLive
    /\ effectPending = FALSE
    /\ timers = << >>
    /\ clock = 0
    /\ msgs = 0
    /\ requests = 0
    /\ log = << >>
    /\ resolved = 0
    /\ everPaused = FALSE
    /\ pauseOutstanding = FALSE
    /\ tickSnap = << >>
    /\ tickStream = << >>
    /\ crashed = FALSE
    /\ connectionStatus = "connecting"
    /\ reconnectIn = << >>
    /\ healthFrom = 0
    /\ detailsFrom = 0
    /\ lastValid = << >>
    /\ mounted = TRUE
    /\ socket = "connecting"
    /\ calls = << >>
    /\ accessToken = 1
    /\ refreshToken = 1
    /\ href = "app"

feedVars == << segmentHealth, systemHealth, systemHealthDetails, healthRef, detailsRef,
              healthFrom, detailsFrom, lastValid >>
runVars == << isLive, isLiveRef, effectPending, timers, resolved, everPaused, pauseOutstanding >>
tickVars == << sensors, history, log, tickSnap, tickStream, crashed >>
linkVars == << connectionStatus, reconnectIn, socket, mounted >>
apiVars == << calls, accessToken, refreshToken, href >>
providerVars == << feedVars, runVars, tickVars, linkVars, clock, msgs, requests >>

(***************************************************************************)
(* setIsLive(v): a state change schedules the [isLive] effect.             *)
(***************************************************************************)
setIsLive(v) ==
    /\ isLive' = v
    /\ effectPending' = (effectPending \/ isLive # v)

\* useEffect(() => { isLiveRef.current = isLive; }, [isLive])
SyncRef ==
    /\ ~crashed
    /\ UNCHANGED apiVars
    /\ mounted
    /\ effectPending
    /\ isLiveRef' = isLive
    /\ effectPending' = FALSE
    /\ UNCHANGED << isLive, timers, resolved, everPaused, pauseOutstanding, clock, msgs, requests >>
    /\ UNCHANGED feedVars
    /\ UNCHANGED tickVars
    /\ UNCHANGED linkVars

(***************************************************************************)
(* The interval callback (lines 108-112) with simulateFluidMetrics and     *)
(* updateHistory.  It is also the passing of one second for the pending    *)
(* timers; an expired timer runs before the next firing.  When the updater *)
(* of setSensors throws, nothing is published and React removes the        *)
(* provider, which has no error boundary above it: the interval is cleared.*)
(* After the cleanup of the interval effect (clearInterval) a second       *)
(* passes without a callback.                                              *)
(***************************************************************************)
Tick(rnd, maxTicks) ==
    /\ ~crashed
    /\ UNCHANGED apiVars
    /\ clock < maxTicks
    /\ \A i \in 1..Len(timers) : timers[i] > 0
    /\ reconnectIn # << 0 >>
    /\ clock' = clock + 1
    /\ timers' = [i \in 1..Len(timers) |-> timers[i] - 1]
    /\ reconnectIn' = [i \in 1..Len(reconnectIn) |-> reconnectIn[i] - 1]
    /\ IF mounted /\ isLiveRef
       THEN IF CascadeThrows(sensors, detailsRef)
            THEN /\ crashed' = TRUE
                 /\ UNCHANGED << sensors, history, log, tickSnap, tickStream >>
            ELSE /\ tickStream' = StreamTrace(sensors, healthRef, detailsRef)
                 /\ sensors' = Publish(sensors, tickStream', rnd)
                 /\ history' = updateHistory(history, sensors', clock')
                 /\ log' = Append(log, HistoryEntry(sensors', clock'))
                 /\ tickSnap' = << [ health |-> healthRef, details |-> detailsRef,
                                     healthFrom |-> healthFrom,
                                     detailsFrom |-> detailsFrom,
                                     valid |-> lastValid ] >>
                 /\ UNCHANGED crashed
       ELSE UNCHANGED tickVars
    /\ UNCHANGED << isLive, isLiveRef, effectPending, resolved, everPaused,
                    pauseOutstanding, msgs, requests, connectionStatus, socket, mounted >>
    /\ UNCHANGED feedVars

(***************************************************************************)
(* runDiagnostics (lines 259-273).                                         *)
(***************************************************************************)
RunDiagnostics(maxTimers, maxRequests) ==
    /\ ~crashed
    /\ UNCHANGED apiVars
    /\ mounted
    /\ requests < maxRequests
    /\ requests' = requests + 1
    /\ \/ /\ isLive
          /\ setIsLive(FALSE)
          /\ everPaused' = TRUE
          /\ pauseOutstanding' = TRUE
          /\ UNCHANGED timers
       \/ /\ ~isLive
          /\ Len(timers) < maxTimers
          /\ timers' = Append(timers, StartDelay)
          /\ pauseOutstanding' = FALSE
          /\ UNCHANGED << isLive, effectPending, everPaused >>
    /\ UNCHANGED << isLiveRef, resolved, clock, msgs >>
    /\ UNCHANGED feedVars
    /\ UNCHANGED tickVars
    /\ UNCHANGED linkVars

\* the callback of the start timer (lines 267-270); React drops a state
\* update of a component that is no longer mounted
StartTimer ==
    /\ ~crashed
    /\ UNCHANGED apiVars
    /\ timers # << >>
    /\ Head(timers) = 0
    /\ timers' = Tail(timers)
    /\ IF mounted THEN setIsLive(TRUE) ELSE UNCHANGED << isLive, effectPending >>
    /\ resolved' = resolved + 1
    /\ UNCHANGED << isLiveRef, everPaused, pauseOutstanding, clock, msgs, requests >>
    /\ UNCHANGED feedVars
    /\ UNCHANGED tickVars
    /\ UNCHANGED linkVars

\* FieldPanel's handleDiagnostics while isLive is true: setIsLive(false) of
\* the context value (while isLive is false it calls runDiagnostics)
SetIsLiveFalse(maxRequests) ==
    /\ ~crashed
    /\ UNCHANGED apiVars
    /\ mounted
    /\ isLive
    /\ requests < maxRequests
    /\ requests' = requests + 1
    /\ setIsLive(FALSE)
    /\ everPaused' = TRUE
    /\ pauseOutstanding' = TRUE
    /\ UNCHANGED << isLiveRef, timers, resolved, clock, msgs >>
    /\ UNCHANGED feedVars
    /\ UNCHANGED tickVars
    /\ UNCHANGED linkVars

(***************************************************************************)
(* socket.onmessage with handleBackendUpdate (lines 55-62, 77-98).         *)
(***************************************************************************)
\* JSON.parse(event.data) returns, and data and data.system_health are truthy
HasSystemHealth(data) ==
    /\ "unparseable" \notin DOMAIN data
    /\ ~IsNull(data)
    /\ "system_health" \in DOMAIN data
    /\ ~IsNull(data.system_health)

\* s.health_score of line 86 throws a TypeError: a segment record is null
ScoresThrow(sh) == \E seg \in DOMAIN sh : IsNull(sh[seg])

\* every segment record is an object whose drivers, if any, is an array of
\* named drivers
WellFormed(sh) ==
    \A seg \in DOMAIN sh : ~IsNull(sh[seg]) /\ ~BadDrivers(sh, seg)

\* the handler; a throw of handleBackendUpdate is caught by onmessage after
\* lines 82-83 have run.  The handlers stay on the socket after the cleanups:
\* the refs are still written, the state updates are dropped.
OnMessage(data, maxMsgs) ==
    /\ ~crashed
    /\ UNCHANGED apiVars
    /\ socket = "open"
    /\ msgs < maxMsgs
    /\ msgs' = msgs + 1
    /\ IF HasSystemHealth(data)
       THEN /\ systemHealthDetails' =
                  (IF mounted THEN data.system_health ELSE systemHealthDetails)
            /\ detailsRef' = data.system_health
            /\ detailsFrom' = msgs'
            /\ IF ScoresThrow(data.system_health)
               THEN UNCHANGED << systemHealth, segmentHealth, healthRef, healthFrom >>
               ELSE /\ systemHealth' =
                          (IF mounted THEN AvgScore(data.system_health) ELSE systemHealth)
                    /\ segmentHealth' =
                          (IF mounted THEN SegHealth(data.system_health) ELSE segmentHealth)
                    /\ healthRef' = SegHealth(data.system_health)
                    /\ healthFrom' = msgs'
            /\ lastValid' = IF WellFormed(data.system_health)
                             THEN << data.system_health >> ELSE lastValid
       ELSE UNCHANGED feedVars
    /\ UNCHANGED << clock, requests >>
    /\ UNCHANGED runVars
    /\ UNCHANGED tickVars
    /\ UNCHANGED linkVars

(***************************************************************************)
(* The WebSocket (lines 43-74).                                            *)
(***************************************************************************)
\* socket.onopen
OnOpen ==
    /\ ~crashed
    /\ UNCHANGED apiVars
    /\ socket = "connecting"
    /\ socket' = "open"
    /\ connectionStatus' = (IF mounted THEN "connected" ELSE connectionStatus)
    /\ UNCHANGED << reconnectIn, mounted, clock, msgs, requests >>
    /\ UNCHANGED feedVars
    /\ UNCHANGED runVars
    /\ UNCHANGED tickVars

\* socket.onclose, of a connection that was open, that failed to open or
\* that the cleanup has closed
OnClose ==
    /\ ~crashed
    /\ UNCHANGED apiVars
    /\ socket \in { "connecting", "open", "closing" }
    /\ socket' = "closed"
    /\ connectionStatus' = (IF mounted THEN "disconnected" ELSE connectionStatus)
    /\ reconnectIn' = << ReconnectDelay >>
    /\ UNCHANGED << mounted, clock, msgs, requests >>
    /\ UNCHANGED feedVars
    /\ UNCHANGED runVars
    /\ UNCHANGED tickVars

\* connect, as the callback of setTimeout(connect, 3000)
Connect ==
    /\ ~crashed
    /\ UNCHANGED apiVars
    /\ reconnectIn = << 0 >>
    /\ reconnectIn' = << >>
    /\ socket' = "connecting"
    /\ connectionStatus' = (IF mounted THEN "connecting" ELSE connectionStatus)
    /\ UNCHANGED << mounted, clock, msgs, requests >>
    /\ UNCHANGED feedVars
    /\ UNCHANGED runVars
    /\ UNCHANGED tickVars

(***************************************************************************)
(* The cleanups of the mount effects (lines 73 and 114): ws.current.close()*)
(* starts the closing handshake of a socket that is connecting or open,    *)
(* after which the browser fires its close event; clearInterval stops the  *)
(* tick.  No cleanup clears a reconnect timer or a start timer.            *)
(***************************************************************************)
Unmount ==
    /\ ~crashed
    /\ UNCHANGED apiVars
    /\ mounted
    /\ mounted' = FALSE
    /\ socket' = (IF socket \in { "connecting", "open" } THEN "closing" ELSE socket)
    /\ UNCHANGED << connectionStatus, reconnectIn, clock, msgs, requests >>
    /\ UNCHANGED feedVars
    /\ UNCHANGED runVars
    /\ UNCHANGED tickVars

(***************************************************************************)
(* The api client (lib/api.js).  A call is a request made through api with *)
(* its config: pc is where it stands, retry is originalRequest._retry,     *)
(* sends and refreshes count the times it was sent and the refresh calls   *)
(* made for it, last is the status of its latest response.                 *)
(***************************************************************************)
Statuses == { 200, 401, 500 }

NewCall == [ pc |-> "sent", retry |-> FALSE, sends |-> 1, refreshes |-> 0,
             last |-> 0, outcome |-> "pending" ]

ShouldRefreshOn401(status, retry) == status = 401

\* error.response?.status === 401 && !originalRequest._retry
ShouldRefresh(status, retry) == status = 401 /\ ~retry

\* api.get / api.post ...: the request is sent
Request(maxCalls) ==
    /\ Len(calls) < maxCalls
    /\ calls' = Append(calls, NewCall)
    /\ UNCHANGED << accessToken, refreshToken, href >>
    /\ UNCHANGED providerVars

\* a response arrives: the response interceptor up to the refresh call, and
\* to its end when no refresh is made
Response(r, status) ==
    /\ r \in 1..Len(calls)
    /\ calls[r].pc = "sent"
    /\ IF status = 200
       THEN /\ calls' = [calls EXCEPT ![r].pc = "done", ![r].last = status,
                                       ![r].outcome = "resolved"]
            /\ UNCHANGED href
       ELSE IF ShouldRefresh(status, calls[r].retry)
       THEN IF refreshToken # 0
            THEN /\ calls' = [calls EXCEPT ![r].pc = "refreshing", ![r].last = status,
                                            ![r].retry = TRUE,
                                            ![r].refreshes = @ + 1]
                 /\ UNCHANGED href
            ELSE /\ calls' = [calls EXCEPT ![r].pc = "done", ![r].last = status,
                                            ![r].retry = TRUE,
                                            ![r].outcome = "rejected"]
                 /\ href' = "/login"
       ELSE /\ calls' = [calls EXCEPT ![r].pc = "done", ![r].last = status,
                                       ![r].outcome = "rejected"]
            /\ UNCHANGED href
    /\ UNCHANGED << accessToken, refreshToken >>
    /\ UNCHANGED providerVars

\* axios.post(.../auth/refresh) resolves: the tokens are stored and the
\* request is sent again; its result is returned without being awaited inside
\* the try, so the catch does not see it
RefreshOk(r) ==
    /\ r \in 1..Len(calls)
    /\ calls[r].pc = "refreshing"
    /\ accessToken' = (IF accessToken > refreshToken THEN accessToken ELSE refreshToken) + 1
    /\ refreshToken' = accessToken'
    /\ calls' = [calls EXCEPT ![r].pc = "sent", ![r].sends = @ + 1]
    /\ UNCHANGED href
    /\ UNCHANGED providerVars

\* axios.post(.../auth/refresh) rejects: the catch of lines 42-46, then the
\* toast and the rejection
RefreshFail(r) ==
    /\ r \in 1..Len(calls)
    /\ calls[r].pc = "refreshing"
    /\ accessToken' = 0
    /\ refreshToken' = 0
    /\ href' = "/login"
    /\ calls' = [calls EXCEPT ![r].pc = "done", ![r].outcome = "rejected"]
    /\ UNCHANGED providerVars

\* logout of AuthProvider
Logout ==
    /\ accessToken # 0 \/ refreshToken # 0
    /\ accessToken' = 0
    /\ refreshToken' = 0
    /\ UNCHANGED << calls, href >>
    /\ UNCHANGED providerVars

(***************************************************************************)
(* Specifications.                                                         *)
(***************************************************************************)
Next ==
    \/ \E rnd \in RandVecs : Tick(rnd, MaxTicks)
    \/ \E data \in Messages : OnMessage(data, MaxMsgs)
    \/ OnOpen
    \/ RunDiagnostics(MaxTimers, MaxRequests)
    \/ SetIsLiveFalse(MaxRequests)
    \/ StartTimer
    \/ SyncRef

Spec == Init /\ [][Next]_vars

NextHist ==
    \/ \E rnd \in RandVecsHist : Tick(rnd, MaxTicksHist)
    \/ RunDiagnostics(MaxTimersHist, MaxRequestsHist)
    \/ SetIsLiveFalse(MaxRequestsHist)
    \/ StartTimer
    \/ SyncRef

SpecHist == Init /\ [][NextHist]_vars

\* the feed and the tick alone, over a wide set of messages and draws
NextFeed ==
    \/ \E rnd \in RandVecsFeed : Tick(rnd, MaxTicksFeed)
    \/ \E data \in MessagesFeed : OnMessage(data, MaxMsgsFeed)
    \/ OnOpen

SpecFeed == Init /\ [][NextFeed]_vars

\* the socket and the feed: connections that open, close and reconnect, and
\* frames of every kind
NextLink ==
    \/ \E rnd \in RandVecsLink : Tick(rnd, MaxTicksLink)
    \/ \E data \in MessagesLink : OnMessage(data, MaxMsgsLink)
    \/ OnOpen
    \/ OnClose
    \/ Connect
    \/ SetIsLiveFalse(MaxRequestsLink)
    \/ SyncRef

SpecLink == Init /\ [][NextLink]_vars

\* one tick on a snapshot whose segments differ in score and agree in drivers
NextGrade ==
    \/ \E rnd \in RandVecsGrade : Tick(rnd, MaxTicksGrade)
    \/ \E data \in MessagesGrade : OnMessage(data, MaxMsgsGrade)
    \/ OnOpen

SpecGrade == Init /\ [][NextGrade]_vars

\* one message and then ticks without noise until the readings stop moving
NextSettle ==
    \/ \E rnd \in RandVecsHist : Tick(rnd, MaxTicksSettle)
    \/ \E data \in MessagesSettle : OnMessage(data, MaxMsgsSettle)
    \/ OnOpen

SpecSettle == Init /\ [][NextSettle]_vars

\* one tick on a snapshot whose segments differ in their drivers
NextDrivers ==
    \/ \E rnd \in RandVecsGrade : Tick(rnd, MaxTicksDrivers)
    \/ \E data \in MessagesDrivers : OnMessage(data, MaxMsgsDrivers)
    \/ OnOpen

SpecDrivers == Init /\ [][NextDrivers]_vars

\* the run state alone: requests of the diagnostics button, start timers and
\* ticks
NextStart ==
    \/ \E rnd \in RandVecsHist : Tick(rnd, MaxTicksStart)
    \/ RunDiagnostics(MaxTimersStart, MaxRequestsStart)
    \/ SetIsLiveFalse(MaxRequestsStart)
    \/ StartTimer
    \/ SyncRef

SpecStart == Init /\ [][NextStart]_vars

\* the feed over messages with four, one and no segments
NextMean ==
    \/ \E rnd \in RandVecsGrade : Tick(rnd, MaxTicksMean)
    \/ \E data \in MessagesMean : OnMessage(data, MaxMsgsMean)
    \/ OnOpen

SpecMean == Init /\ [][NextMean]_vars

\* the provider until and after its cleanups: the socket, the feed, the run
\* state and the timers that outlive the cleanups
NextDown ==
    \/ \E rnd \in RandVecsGrade : Tick(rnd, MaxTicksDown)
    \/ \E data \in { MsgLeakBC } : OnMessage(data, MaxMsgsDown)
    \/ OnOpen
    \/ OnClose
    \/ Connect
    \/ RunDiagnostics(MaxTimersDown, MaxRequestsDown)
    \/ StartTimer
    \/ SyncRef
    \/ Unmount

SpecDown == Init /\ [][NextDown]_vars

\* requests through the api client, their responses and the refresh calls
NextApi ==
    \/ Request(MaxCalls)
    \/ \E r \in 1..MaxCalls, status \in Statuses : Response(r, status)
    \/ \E r \in 1..MaxCalls : RefreshOk(r)
    \/ \E r \in 1..MaxCalls : RefreshFail(r)
    \/ Logout

SpecApi == Init /\ [][NextApi]_vars

(***************************************************************************)
(* Properties.                                                             *)
(***************************************************************************)
TickStep == clock' # clock
ReadingsUnchanged == sensors' = sensors /\ history' = history
StartPending(ts) == \E i \in 1..Len(ts) : ts[i] > 0

\* C1: a firing of the interval while isLive is false changes neither sensors
\* nor history.
C1_TickGatedByIsLive ==
    [][(TickStep /\ ~isLive) => ReadingsUnchanged]_vars

\* C2: once a pause request is the latest request, the state is Paused at
\* once, stays out of Running, and no step changes sensors or history, until
\* a resume request is issued.
C2_PauseHoldsUntilResume ==
    [][ /\ pauseOutstanding' => ~isLive'
        /\ pauseOutstanding => ReadingsUnchanged ]_vars

\* C3: while the start delay of a resume request is running the state is not
\* Running and no step changes sensors or history; the promise of the request
\* resolves only in a state that is Running.
C3_ResumeWaitsFullDelay ==
    [][ /\ StartPending(timers') => ~isLive'
        /\ StartPending(timers) => ReadingsUnchanged
        /\ resolved' > resolved => isLive' ]_vars

\* C4 as claimed: until the first start delay has completed the engine is not
\* Running and no tick has changed sensors or history.
C4_StartsPaused == resolved = 0 => (~isLive /\ log = << >>)

\* C4 as amended: the run state starts in Running; until the first pause
\* request isLive and isLiveRef are true and every firing of the interval is
\* an active tick.
C4_StartsRunning == ~everPaused => (isLive /\ isLiveRef /\ Len(log) = clock)

C4_Witness == ~everPaused /\ clock >= 2 /\ Len(history) = 2 /\ sensors # INITIAL_SENSORS

\* C5: history holds at most 30 entries, and they are the entries of the most
\* recent active ticks, oldest first.
C5_HistoryIsLastEntries ==
    /\ Len(history) <= HistoryCap
    /\ Len(history) = (IF Len(log) <= HistoryCap THEN Len(log) ELSE HistoryCap)
    /\ \A k \in 1..Len(history) : history[k] = log[Len(log) - Len(history) + k]
    /\ \A k \in 1..(Len(history) - 1) : history[k].timestamp < history[k + 1].timestamp

C5_Witness == Len(log) > HistoryCap /\ Len(history) = HistoryCap /\ clock > Len(log)

\* the entry matches the first node's reading
MatchesFirstNode(entry, ss) ==
    /\ entry.pressure = ss[1].pressure
    /\ entry.flow = ss[1].flow
    /\ entry.temp = ss[1].temp

\* C6: an active tick appends exactly one entry, holding the first node's
\* pressure, flow and temp of that tick; a suppressed tick appends none; the
\* last entry always matches the published reading of the first node.
C6_OneEntryPerActiveTick ==
    [][ /\ (TickStep /\ isLiveRef) =>
              /\ Len(history') = (IF Len(history) < HistoryCap
                                  THEN Len(history) + 1 ELSE HistoryCap)
              /\ \A k \in 1..(Len(history') - 1) :
                    history'[k] = history[Len(history) + 1 - Len(history') + k]
              /\ history'[Len(history')].timestamp = clock'
        /\ (TickStep /\ ~isLiveRef) => history' = history
        /\ history' # << >> => MatchesFirstNode(history'[Len(history')], sensors') ]_vars

C6_Witness ==
    /\ Len(history) >= 2
    /\ clock > Len(log)
    /\ history[Len(history)].pressure # sensors[2].pressure
    /\ MatchesFirstNode(history[Len(history)], sensors)

FedRecord(i) == tickSnap[1].details[SegmentOf(sensors[i].id)]
HasFedScore(i) ==
    /\ SegmentOf(sensors[i].id) \in DOMAIN tickSnap[1].details
    /\ "health_score" \in DOMAIN FedRecord(i)

\* C8: for a delivered score h in 0..100 the emitted status is critical if
\* h < 75, warning if 75 <= h < 90, normal if h >= 90.
C8_StatusFollowsScore ==
    tickSnap # << >> =>
        \A i \in 1..Len(sensors) :
            (HasFedScore(i) /\ FedRecord(i).health_score \in 0..100) =>
                sensors[i].status =
                    (IF FedRecord(i).health_score < 75 THEN "critical"
                     ELSE IF FedRecord(i).health_score < 90 THEN "warning"
                     ELSE "normal")

\* the last active tick read the scenario A-B 100, B-C 60 'leak', C-D 100, D-E 100
LeakScenarioTicked ==
    tickSnap # << >> /\ tickSnap[1].details = MsgLeakBC.system_health

\* C9 as claimed: in the scenario node B's status is warning.
C9_NodeBWarning == LeakScenarioTicked => sensors[2].status = "warning"

\* C9 as amended: in the scenario node B's status is critical.
C9_NodeBCritical == LeakScenarioTicked => sensors[2].status = "critical"

C9_Witness == LeakScenarioTicked /\ sensors[2].status = "critical" /\ sensors[1].status = "normal"

\* C10: on a segment with a blockage-like driver the stream pressure changes
\* by friction and backpressure only, and the stream flow leaving the segment
\* equals the stream flow entering it.
C10_BlockageHasNoLeakTerm ==
    tickSnap # << >> =>
        \A i \in 1..Len(sensors) :
            LET seg == SegmentOf(sensors[i].id)
                h == HealthOf(tickSnap[1].health, seg)
            IN DriverFlags(tickSnap[1].details, seg).isBlockage =>
                 /\ tickStream[i].fOut = tickStream[i].fIn
                 /\ tickStream[i].pOut =
                        MathMax(0, tickStream[i].pIn + (100 - h) * BackPressurePerDamage
                                     - FrictionLoss)

\* C11: in every tick the stream that leaves the terminal node SENSOR_E, which
\* is the pressure and flow target of that node, equals the stream that reached
\* it from node D: no friction, leak or backpressure term is applied at it.
C11_TerminalForwardsStream ==
    tickStream # << >> =>
        /\ sensors[5].id = "SENSOR_E"
        /\ tickStream[5].pOut = tickStream[5].pIn
        /\ tickStream[5].fOut = tickStream[5].fIn

\* C13: the scores the engine stores lie in 0..100, and the damage factor a
\* tick computes from them lies in 0..1 (0..100 in 1/100).
C13_HealthAndDamageInRange ==
    /\ \A seg \in DOMAIN healthRef : healthRef[seg] \in 0..100
    /\ \A seg \in DOMAIN segmentHealth : segmentHealth[seg] \in 0..100
    /\ tickStream # << >> =>
          \A i \in 1..Len(tickStream) : Damage(tickStream[i].health) \in 0..100

\* the snapshot read by the last active tick has nothing for the segment of
\* node i: the feed has delivered no snapshot yet, or neither the scores nor
\* the driver records name the segment
NoEntryFor(i) ==
    \/ tickSnap[1].detailsFrom = 0 /\ tickSnap[1].healthFrom = 0
    \/ /\ SegmentOf(sensors[i].id) \notin DOMAIN tickSnap[1].health
       /\ SegmentOf(sensors[i].id) \notin DOMAIN tickSnap[1].details

NoFlags == [ isLeak |-> FALSE, isBlockage |-> FALSE, isCorrosion |-> FALSE,
             isVibration |-> FALSE ]

\* C12: a tick treats a segment the snapshot has no entry for as health 100
\* with no drivers: damage 0, the friction loss alone on the stream pressure,
\* no flow loss, the idle vibration, corrosion and acoustic targets (0.02, 0.01
\* and 40), status normal.
C12_MissingSegmentIsHealthy ==
    tickSnap # << >> =>
        \A i \in 1..Len(sensors) :
            NoEntryFor(i) =>
                /\ tickStream[i].health = 100
                /\ Damage(tickStream[i].health) = 0
                /\ tickStream[i].flags = NoFlags
                /\ tickStream[i].pOut = MathMax(0, tickStream[i].pIn - 8000)
                /\ tickStream[i].fOut = tickStream[i].fIn
                /\ tickStream[i].vib = 200
                /\ tickStream[i].corrosion = 100
                /\ tickStream[i].acoustic = 400000
                /\ sensors[i].status = "normal"
                /\ sensors[i].corrosion = 100

\* the second message omitted C-D after a tick had seen its clog at health 40
C12_Witness ==
    /\ tickSnap # << >>
    /\ tickSnap[1].healthFrom = 2
    /\ tickSnap[1].details = MsgOnlyBC.system_health
    /\ sensors[2].status = "critical"
    /\ sensors[3].status = "normal"
    /\ sensors[3].vibration > 500

\* C14: the scores and the driver records read by a tick were taken from one
\* and the same feed message (or both are still the initial ones); a message
\* whose handling stops part-way replaces neither.
C14_SnapshotFromOneMessage ==
    /\ healthFrom = detailsFrom
    /\ tickSnap # << >> => tickSnap[1].healthFrom = tickSnap[1].detailsFrom

\* C15: a tick reads the snapshot of the latest well-formed message, the
\* initial one if there was none, whatever frames and socket events came
\* after it; and no such event ends the ticks.
C15_TickUsesLatestValid ==
    /\ ~crashed
    /\ tickSnap # << >> =>
          IF tickSnap[1].valid = << >>
          THEN /\ tickSnap[1].details = << >>
               /\ tickSnap[1].health = [seg \in Segments |-> 100]
          ELSE /\ tickSnap[1].details = tickSnap[1].valid[1]
               /\ tickSnap[1].health = SegHealth(tickSnap[1].valid[1])

\* C16: no feed message makes a tick abort, and a tick treats a segment whose
\* record has an unusable driver list as health 100 with no drivers.
C16_FaultNeverAbortsTick ==
    /\ ~crashed
    /\ tickSnap # << >> =>
          \A i \in 1..Len(sensors) :
              BadDrivers(tickSnap[1].details, SegmentOf(sensors[i].id)) =>
                  tickStream[i].health = 100 /\ tickStream[i].flags = NoFlags

\* C17: the published sensors are always a complete set: the five nodes in
\* the order A to E, either all initial or all written by the last active
\* tick from the one snapshot that tick read, also when a health update or a
\* pause request came after it.
C17_PublishedSetIsComplete ==
    /\ Len(sensors) = 5
    /\ \A i \in 1..5 : sensors[i].id = INITIAL_SENSORS[i].id
    /\ IF tickSnap = << >>
       THEN sensors = INITIAL_SENSORS
       ELSE \A i \in 1..5 :
              /\ tickStream[i].health = HealthOf(tickSnap[1].health, SegmentOf(sensors[i].id))
              /\ tickStream[i].flags = DriverFlags(tickSnap[1].details, SegmentOf(sensors[i].id))
              /\ sensors[i].status = StatusOf(tickStream[i].health)
              /\ sensors[i].corrosion = tickStream[i].corrosion
              /\ sensors[i].acoustic # << >>

\* several ticks, then a health update and a pause request after the last one
C17_Witness ==
    /\ Len(log) >= 2
    /\ tickSnap[1].healthFrom = 1
    /\ msgs = 2
    /\ healthRef # tickSnap[1].health
    /\ everPaused
    /\ sensors[5].status = "critical"
    /\ sensors[1].status = "critical"

\* the steady-state targets with every segment at health 100 and no drivers:
\* pressure 80 - 0.8 * k at the k-th node, flow 355
SteadyPressure(k) == 800000 - 8000 * k
SteadyFlow(k) == 3550000

\* distance of node k's readings from the steady-state targets
PressureGap(ss, k) == SteadyPressure(k) - ss[k].pressure
FlowGap(ss, k) == SteadyFlow(k) - ss[k].flow

VibActive(t) == t.flags.isVibration \/ t.health < 75
CorrosionActive(t) == t.flags.isCorrosion \/ t.health < 75
AcousticActive(t) == t.flags.isLeak \/ t.flags.isBlockage

\* C19: of two nodes of a tick whose segments have the same drivers and
\* damage factors d1 <= d2 in [0, 1], the node with d2 has vibration, corrosion
\* and acoustic targets at least as large; a target is strictly larger for
\* d1 < d2 when its driver category (or, for vibration and corrosion, the
\* critical condition) is active at both.
C19_TargetsMonotoneInDamage ==
    tickStream # << >> =>
        \A i, j \in 1..Len(tickStream) :
            LET a == tickStream[i]
                b == tickStream[j]
            IN ( /\ a.flags = b.flags
                 /\ Damage(a.health) \in 0..100
                 /\ Damage(b.health) \in 0..100
                 /\ Damage(a.health) <= Damage(b.health) ) =>
                    /\ a.vib <= b.vib
                    /\ a.corrosion <= b.corrosion
                    /\ a.acoustic <= b.acoustic
                    /\ Damage(a.health) < Damage(b.health) =>
                          /\ (VibActive(a) /\ VibActive(b)) => a.vib < b.vib
                          /\ (CorrosionActive(a) /\ CorrosionActive(b)) =>
                                a.corrosion < b.corrosion
                          /\ (AcousticActive(a) /\ AcousticActive(b)) =>
                                a.acoustic < b.acoustic

\* a tick over the scores 75, 74, 26 and 1 with drivers of every category:
\* the targets grow from node to node, across the critical threshold too
C19_Witness ==
    /\ tickStream # << >>
    /\ tickStream[1].health = 75 /\ tickStream[2].health = 74
    /\ tickStream[3].health = 26 /\ tickStream[4].health = 1
    /\ tickStream[1].flags = [ isLeak |-> TRUE, isBlockage |-> TRUE,
                                isCorrosion |-> TRUE, isVibration |-> TRUE ]
    /\ \A i \in 1..3 : /\ tickStream[i].vib < tickStream[i + 1].vib
                        /\ tickStream[i].corrosion < tickStream[i + 1].corrosion
                        /\ tickStream[i].acoustic < tickStream[i + 1].acoustic
    /\ tickStream[1].vib > 3200

\* the loss terms of C20 for a node of the last active tick, in 1/10000:
\* 0.8 + 25 d of pressure and 40 d of flow with a leak-like driver or health
\* below 75, 0.8 of pressure and no flow otherwise
LeakLike(t) == t.flags.isLeak \/ t.health < 75
PressureLoss(t) == 8000 + (IF LeakLike(t) THEN 2500 * (100 - t.health) ELSE 0)
FlowLoss(t) == IF LeakLike(t) THEN 4000 * (100 - t.health) ELSE 0

\* C20 as claimed: on a segment without a blockage-like driver the stream
\* loses exactly these amounts.
C20_LossesExact ==
    tickStream # << >> =>
        \A i \in 1..Len(tickStream) :
            ~tickStream[i].flags.isBlockage =>
                /\ tickStream[i].pOut = tickStream[i].pIn - PressureLoss(tickStream[i])
                /\ tickStream[i].fOut = tickStream[i].fIn - FlowLoss(tickStream[i])

\* C20 as amended: on a segment without a blockage-like driver the stream
\* loses these amounts, except that neither pressure nor flow goes below 0.
C20_LossesFlooredAtZero ==
    tickStream # << >> =>
        \A i \in 1..Len(tickStream) :
            ~tickStream[i].flags.isBlockage =>
                /\ tickStream[i].pOut =
                      (IF tickStream[i].pIn - PressureLoss(tickStream[i]) < 0 THEN 0
                       ELSE tickStream[i].pIn - PressureLoss(tickStream[i]))
                /\ tickStream[i].fOut =
                      (IF tickStream[i].fIn - FlowLoss(tickStream[i]) < 0 THEN 0
                       ELSE tickStream[i].fIn - FlowLoss(tickStream[i]))

\* a tick on health 1 with a leak on every segment: full losses at the first
\* nodes, the floor at node D where less pressure is left than the loss
C20_Witness ==
    /\ tickStream # << >>
    /\ \A i \in 1..5 : tickStream[i].health = 1 /\ tickStream[i].flags.isLeak
                          /\ ~tickStream[i].flags.isBlockage
    /\ tickStream[1].pOut = 800000 - 8000 - 247500
    /\ tickStream[1].fOut = 3550000 - 396000
    /\ tickStream[4].pIn > 0
    /\ tickStream[4].pOut = 0


\* the segment of node i of the last active tick has a loss: damage with a
\* leak-like driver or health below 75, and no blockage-like driver
HasLoss(i) ==
    /\ tickStream[i].health < 100
    /\ tickStream[i].flags.isLeak \/ tickStream[i].health < 75
    /\ ~tickStream[i].flags.isBlockage

\* no segment of the nodes 1..i has a loss or a blockage-like driver
NoLossUpTo(i) ==
    \A j \in 1..i : /\ ~tickStream[j].flags.isLeak
                    /\ ~tickStream[j].flags.isBlockage
                    /\ tickStream[j].health >= 75

\* the last active tick read B-C = 60 with a leak-like driver and the other
\* segments healthy
LeakOnBC ==
    /\ tickStream # << >>
    /\ tickStream[1].health = 100 /\ tickStream[1].flags = NoFlags
    /\ tickStream[2].health = 60 /\ tickStream[2].flags.isLeak
    /\ ~tickStream[2].flags.isBlockage

\* C21: within one tick the stream entering node i+1 is the clamped stream
\* left by node i (the first node takes the source, 80 PSI and 355 LPM); a
\* loss on a segment lowers the pressure and flow targets of its node and of
\* every node after it and of no node before it; with healths in [0, 100] and
\* no blockage-like driver the pressure target strictly decreases from node to
\* node until it is 0 and the flow target never increases; with B-C = 60 and a
\* leak-like driver, node B's pressure, once node A's and node B's have stopped
\* moving, is below node A's by more than 0.8.
C21_CascadeCoupling ==
    [][ (TickStep /\ tickStream' # << >>) =>
          LET t == tickStream'
          IN /\ t[1].pIn = 800000 /\ t[1].fIn = 3550000
             /\ \A i \in 1..4 : t[i + 1].pIn = t[i].pOut /\ t[i + 1].fIn = t[i].fOut
             /\ \A i \in 1..5 : t[i].pOut >= 0 /\ t[i].fOut >= 0
             /\ \A i \in 1..5 :
                  (t[i].health \in 0..100 /\ ~t[i].flags.isBlockage) =>
                      /\ t[i].pOut < t[i].pIn \/ t[i].pOut = 0
                      /\ t[i].fOut <= t[i].fIn
             /\ \A i \in 1..5 :
                  NoLossUpTo(i)' => /\ t[i].pOut = 800000 - 8000 * i
                                    /\ t[i].fOut = 3550000
             /\ \A i \in 1..5 :
                  HasLoss(i)' =>
                      \A j \in i..5 :
                          /\ t[j].fOut < 3550000
                          /\ (\A k \in 1..j : ~t[k].flags.isBlockage) =>
                                t[j].pOut < 800000 - 8000 * j
             /\ ( /\ LeakOnBC'
                  /\ sensors'[1].pressure = sensors[1].pressure
                  /\ sensors'[2].pressure = sensors[2].pressure ) =>
                      sensors'[2].pressure < sensors'[1].pressure - 8000 ]_vars

\* the leak on B-C was read by a tick that left the pressures of nodes A
\* and B where they were: node A near 79.2, node B near 68.4, the nodes after
\* B below their healthy targets
C21_Witness ==
    /\ LeakOnBC
    /\ Len(log) >= 2
    /\ log[Len(log)].pressure = log[Len(log) - 1].pressure
    /\ sensors[1].pressure \in 791500..792000
    /\ sensors[2].pressure \in 683500..684500
    /\ tickStream[2].pOut = 684000
    /\ tickStream[3].pIn = 684000
    /\ tickStream[5].pOut = 660000
    /\ tickStream[5].fOut = 3550000 - 160000

\* the names of the drivers that the snapshot of the last active tick lists
\* for a segment
NamesOf(seg) ==
    IF seg \in DOMAIN tickSnap[1].details
    THEN { tickSnap[1].details[seg].drivers[k].name :
             k \in 1..Len(tickSnap[1].details[seg].drivers) }
    ELSE {}

\* the categories that names call for: 'Leak Detected' and 'Pump FAILURE' are
\* leak-like, 'clog' and 'Scale Buildup' blockage-like, 'Corrosion Rate'
\* corrosion-like, 'Vibration' vibration-like, 'H2S' nothing
CategoriesOf(names) ==
    [ isLeak |-> NameLeak \in names \/ NameFailure \in names,
      isBlockage |-> NameClog \in names \/ NameBuildup \in names,
      isCorrosion |-> NameCorrosion \in names,
      isVibration |-> NameVibration \in names ]

\* the segment whose record the tick reads for the i-th node
SegmentAt(i) == << "A-B", "B-C", "C-D", "D-E", "D-E" >>[i]

\* C22: at every node of a tick each of the four categories is active exactly
\* when a driver name of the node's own segment contains one of the category's
\* keywords in any letter case, whatever the other categories and the other
\* segments' drivers are; the effects on the local targets add up: acoustic
\* 40 + 50 d (leak-like) + 20 d (blockage-like), vibration 0.02 + 0.8 d
\* (vibration-like or health below 75) + 0.3 (blockage-like), corrosion
\* 0.01 + 0.6 d (corrosion-like or health below 75).
C22_CategoriesIndependent ==
    tickStream # << >> =>
        \A i \in 1..5 :
            LET t == tickStream[i]
                c == CategoriesOf(NamesOf(SegmentAt(i)))
                d == 100 - t.health
            IN /\ t.flags = c
               /\ t.acoustic = 400000 + (IF c.isLeak THEN 5000 * d ELSE 0)
                                      + (IF c.isBlockage THEN 2000 * d ELSE 0)
               /\ t.vib = 200 + (IF c.isVibration \/ t.health < 75 THEN 80 * d ELSE 0)
                              + (IF c.isBlockage THEN 3000 ELSE 0)
               /\ t.corrosion = 100 + (IF c.isCorrosion \/ t.health < 75 THEN 60 * d ELSE 0)

\* a tick on a snapshot where A-B lists 'Pump FAILURE' and 'Scale Buildup'
\* (leak-like and blockage-like together, health 60) and B-C lists the other
\* four names: node A has acoustic 40 + 20 + 8 and no corrosion or vibration
\* category, node B has all four categories, node C none
C22_Witness ==
    /\ tickStream # << >>
    /\ NamesOf("A-B") = { NameOther, NameFailure, NameBuildup }
    /\ tickStream[1].flags = [ isLeak |-> TRUE, isBlockage |-> TRUE,
                                isCorrosion |-> FALSE, isVibration |-> FALSE ]
    /\ tickStream[1].acoustic = 400000 + 200000 + 80000
    /\ tickStream[2].flags = [ isLeak |-> TRUE, isBlockage |-> TRUE,
                                isCorrosion |-> TRUE, isVibration |-> TRUE ]
    /\ tickStream[3].flags = NoFlags

\* C23: a pause request issued while a start timer is pending cancels the
\* pending transition, and a start timer whose time is reached after a pause
\* request that no resume request followed leaves the state Paused.
C23_PauseSupersedesStart ==
    [][ /\ (pauseOutstanding' /\ ~pauseOutstanding) => timers' = << >>
        /\ (resolved' > resolved /\ pauseOutstanding) => ~isLive' ]_vars

\* C26: at most one start timer is pending at any time, and a step that
\* makes the state Running is never taken while a pause request is the latest
\* request.
C26_OneStartTimer ==
    [][ /\ Len(timers') <= 1
        /\ (isLive' /\ ~isLive) => ~pauseOutstanding ]_vars

\* next is 0.9 * prev + 0.1 * target, rounded to a multiple of unit
SmoothedTo(prev, next, target, unit) ==
    (10 * next - 9 * prev - target) \in (0 - 5 * unit)..(5 * unit)

\* C24: with zero noise every metric an active tick emits for a node is
\* 0.9 * previous + 0.1 * target, rounded to the digits the metric keeps, and
\* the target itself when the node has no previous value (acoustic on the
\* first tick); this holds for pressure, flow, temperature, vibration,
\* acoustic and corrosion alike.
C24_EveryMetricSmoothed ==
    [][ Len(log') > Len(log) =>
          \A k \in 1..5 :
              LET t == tickStream'[k]
              IN /\ SmoothedTo(sensors[k].pressure, sensors'[k].pressure, t.pOut, 100)
                 /\ SmoothedTo(sensors[k].flow, sensors'[k].flow, t.fOut, 1000)
                 /\ SmoothedTo(sensors[k].temp, sensors'[k].temp,
                               320000 + 500 * (100 - t.health), 1000)
                 /\ SmoothedTo(sensors[k].vibration, sensors'[k].vibration, t.vib, 10)
                 /\ IF sensors[k].acoustic = << >>
                    THEN sensors'[k].acoustic = << t.acoustic >>
                    ELSE SmoothedTo(sensors[k].acoustic[1], sensors'[k].acoustic[1],
                                    t.acoustic, 1000)
                 /\ SmoothedTo(sensors[k].corrosion, sensors'[k].corrosion,
                               t.corrosion, 1) ]_vars

\* C25: in every reachable state the sensor list has the five nodes of the
\* initial topology in their order, each with the fields it started with and
\* its id, name, location, lat and lng unchanged (acoustic, which the initial
\* records lack, is the only field whose presence changes).
C25_TopologyFixed ==
    /\ Len(sensors) = 5
    /\ [k \in 1..5 |-> sensors[k].id] =
          << "SENSOR_A", "SENSOR_B", "SENSOR_C", "SENSOR_D", "SENSOR_E" >>
    /\ \A k \in 1..5 :
          /\ DOMAIN sensors[k] = DOMAIN INITIAL_SENSORS[k]
          /\ sensors[k].name = INITIAL_SENSORS[k].name
          /\ sensors[k].location = INITIAL_SENSORS[k].location
          /\ sensors[k].lat = INITIAL_SENSORS[k].lat
          /\ sensors[k].lng = INITIAL_SENSORS[k].lng

\* ticks before a pause, a health update, a pause, a resume and a tick after
\* the start delay have rewritten every node's readings
C25_Witness ==
    /\ resolved = 1
    /\ msgs = 1
    /\ clock = 7
    /\ Len(log) >= 2
    /\ \A k \in 1..5 : /\ sensors[k].pressure # INITIAL_SENSORS[k].pressure
                        /\ sensors[k].acoustic # << >>
    /\ sensors[5].name = "Sensor E (Out)"

\* C28: a pause or resume request changes neither sensors nor history nor
\* the health snapshot; no step changes sensors or history while the state is
\* not Running before and after it; and an active tick smooths every pressure
\* and flow from the readings the node had before it (zero noise), so the first
\* tick after a resume starts from the readings of before the pause.
C28_RequestsKeepReadings ==
    [][ /\ requests' # requests =>
              /\ ReadingsUnchanged
              /\ UNCHANGED << segmentHealth, systemHealth, systemHealthDetails,
                              healthRef, detailsRef >>
        /\ (~isLive /\ ~isLive') => ReadingsUnchanged
        /\ Len(log') > Len(log) =>
              \A k \in 1..5 :
                  /\ SmoothedTo(sensors[k].pressure, sensors'[k].pressure,
                                tickStream'[k].pOut, 100)
                  /\ SmoothedTo(sensors[k].flow, sensors'[k].flow,
                                tickStream'[k].fOut, 1000) ]_vars

\* the sum of the scores stored in segmentHealth for the segments of S
RECURSIVE SumStored(_)
SumStored(S) ==
    IF S = {} THEN 0
    ELSE LET seg == CHOOSE x \in S : TRUE
         IN segmentHealth[seg] + SumStored(S \ {seg})

\* C29: systemHealth is a number, it is the arithmetic mean of the scores
\* stored in segmentHealth, and it is in [0, 100] when those scores are.
C29_SystemHealthIsMean ==
    /\ systemHealth.den > 0
    /\ systemHealth.num * Cardinality(DOMAIN segmentHealth) =
          systemHealth.den * SumStored(DOMAIN segmentHealth)
    /\ (\A seg \in DOMAIN segmentHealth : segmentHealth[seg] \in 0..100) =>
          /\ systemHealth.num >= 0
          /\ systemHealth.num <= 100 * systemHealth.den

\* C27: a step taken after the cleanups of the provider have run opens no
\* new WebSocket connection and changes neither connectionStatus nor the run
\* state nor sensors nor history.
C27_QuietAfterTeardown ==
    [][ ~mounted =>
          /\ socket' = "connecting" => socket = "connecting"
          /\ UNCHANGED << connectionStatus, isLive, sensors, history >> ]_vars

\* C30: for every request sent through the api client at most one refresh
\* call is made and the request is sent at most once more, only after a
\* refresh; a response to the re-sent request settles it without another
\* refresh, a 401 as a rejection; and a refresh call that fails leaves
\* neither access_token nor refresh_token in storage.
C30_OneRefreshOneResend ==
    [][ /\ \A r \in 1..Len(calls') :
              /\ calls'[r].refreshes <= 1
              /\ calls'[r].sends <= 1 + calls'[r].refreshes
        /\ \A r \in 1..Len(calls) :
              /\ (calls[r].sends = 2 /\ calls[r].pc = "sent" /\ calls'[r] # calls[r]) =>
                    /\ calls'[r].pc = "done"
                    /\ calls'[r].refreshes = calls[r].refreshes
                    /\ calls'[r].last = 401 => calls'[r].outcome = "rejected"
              /\ (calls[r].pc = "refreshing" /\ calls'[r].outcome = "rejected") =>
                    accessToken' = 0 /\ refreshToken' = 0 ]_vars

\* one request was refreshed, sent again, answered 401 again and rejected
\* with the new tokens still stored; then the refresh call of a second
\* request failed and the tokens are gone
C30_Witness ==
    /\ Len(calls) >= 2
    /\ calls[1] = [ pc |-> "done", retry |-> TRUE, sends |-> 2, refreshes |-> 1,
                    last |-> 401, outcome |-> "rejected" ]
    /\ calls[2] = [ pc |-> "done", retry |-> TRUE, sends |-> 1, refreshes |-> 1,
                    last |-> 401, outcome |-> "rejected" ]
    /\ accessToken = 0
    /\ refreshToken = 0
    /\ href = "/login"
====
